---- MODULE Spec2Model ----
(***************************************************************************)
(* Hierarchical Markdown chunker (src/chunkerer.py).                       *)
(*                                                                         *)
(* Text is a sequence of characters; a character is a one-character        *)
(* string.  A MarkdownChunker is constructed with max_chunk_size, then     *)
(* chunk_by_headers is called on a document: the scan handles one line     *)
(* per step, the last chunk is closed, and the chunks are subdivided one   *)
(* chunk per step when a max_chunk_size is configured.                     *)
(***************************************************************************)
EXTENDS Integers, Sequences, FiniteSets, TLC

VARIABLES
    max_chunk_size,   \* self.max_chunk_size; 0 stands for None (both falsy)
    md_content,       \* the argument of chunk_by_headers
    lines,            \* md_content.split("\n")
    i,                \* index of the next line of the scan (zero-based)
    chunks,           \* the Segment Builder's list
    header_stack,     \* stack of [level, title] frames
    current_content,  \* pending lines
    current_start,
    current_level,
    matched,          \* per scanned line: whether header_pattern matched it
    chunk_stacks,     \* per chunk of chunks: the header_stack.copy() it was built from
    j,                \* index of the next chunk of the subdivision pass
    result,           \* the list under construction in _subdivide_large_chunks / returned
    parent_of,        \* per chunk of result: index (1-based) of its chunk in chunks
    pc,
    called,           \* the texts chunk_by_headers was called with on this instance
    handle,           \* the file object of load_and_chunk: "none", "open", "closed"
    file,             \* <<the file load_and_chunk opened>>, or <<>>
    error,            \* the exception that reached the caller, or "none"
    obj,              \* <<a MarkdownChunk the caller holds>>, or <<>>
    projection,       \* <<what the last to_dict() returned>>, or <<>>
    cli,              \* the run of chunkerer.py as a script
    search,           \* the call of search_similar_chunks
    web               \* the request handled by api_convert, and the upload directory

vars == <<max_chunk_size, md_content, lines, i, chunks, header_stack,
          current_content, current_start, current_level, matched,
          chunk_stacks, j, result, parent_of, pc,
          called, handle, file, error, obj, projection, cli, search, web>>

clientVars == <<called, handle, file, error, obj, projection>>

envVars == <<cli, search, web>>

\* no script is running
CliOff ==
    [ stage |-> "off", argc |-> 0, usage |-> FALSE, summary |-> <<>>, status |-> -1 ]

\* search_similar_chunks is not running
SearchOff ==
    [ stage |-> "off", data |-> <<>>, question_embedding |-> <<0, 0>>, top_k |-> 0,
      n |-> 0, similarities |-> <<>>, found |-> <<>> ]

\* no request is being handled and the upload directory is empty
WebOff ==
    [ stage |-> "off", filename |-> <<>>, body |-> [head |-> <<>>, size |-> 0],
      pdf_path |-> FALSE,
      md_path |-> FALSE, converted |-> FALSE, status_code |-> 0 ]

-----------------------------------------------------------------------------
(* Bounds and input alphabet *)

MaxLines == 3

NL == "\n"

IsSpace(c) == c \in {" ", "\t", NL, "\r"}

DocumentRoot == <<"D","o","c","u","m","e","n","t"," ","R","o","o","t">>

\* Lines a document is made of: headers of three levels, text, a blank
\* line, and lines at the edge of the header pattern.
LineSet ==
    { <<"#"," ","A">>,
      <<"#","#"," ","B">>,
      <<"#","#","#"," ","C">>,
      <<"a","b">>,
      <<>>,
      <<"#"," "," ">>,
      <<"#"," ">>,
      <<"#","#","#","#","#","#","#"," ","x">>,
      <<"#","A">>,
      <<"#"," ","A"," ",">"," ","B">>,
      <<"#","#"," ","B"," ",">">> }

\* Values of max_chunk_size; 0 is "no limit".
SizeSet == {0, 2, 5}

-----------------------------------------------------------------------------
(* str helpers *)

RECURSIVE Join(_, _)
\* sep.join(parts)
Join(parts, sep) ==
    IF parts = <<>> THEN <<>>
    ELSE IF Len(parts) = 1 THEN parts[1]
    ELSE parts[1] \o sep \o Join(Tail(parts), sep)

\* positions at which sep occurs in s
Occurrences(s, sep) ==
    { p \in 1..(Len(s) - Len(sep) + 1) : SubSeq(s, p, p + Len(sep) - 1) = sep }

RECURSIVE Split(_, _)
\* s.split(sep): cut at the leftmost occurrence, continue after it
Split(s, sep) ==
    LET occ == Occurrences(s, sep) IN
    IF occ = {} THEN <<s>>
    ELSE LET p == CHOOSE q \in occ : \A r \in occ : q <= r
         IN <<SubSeq(s, 1, p - 1)>> \o Split(SubSeq(s, p + Len(sep), Len(s)), sep)

\* s.strip()
Strip(s) ==
    LET keep == { p \in 1..Len(s) : ~IsSpace(s[p]) } IN
    IF keep = {} THEN <<>>
    ELSE LET lo == CHOOSE p \in keep : \A q \in keep : p <= q
             hi == CHOOSE p \in keep : \A q \in keep : q <= p
         IN SubSeq(s, lo, hi)

Docs == UNION { [1..n -> LineSet] : n \in 1..MaxLines }

Inputs == { Join(d, <<NL>>) : d \in Docs }

-----------------------------------------------------------------------------
(* header_pattern = re.compile(r"^(#{1,6})\s+(.+)$") matched against a line *)

MaxHeaderLevel == 6

Min(a, b) == IF a <= b THEN a ELSE b

\* number of leading '#' characters of the line
LeadingHashes(line) ==
    Cardinality({ p \in 1..Len(line) : \A q \in 1..p : line[q] = "#" })

\* number of consecutive whitespace characters after position from
SpacesAfter(line, from) ==
    Cardinality({ p \in 1..(Len(line) - from) : \A q \in 1..p : IsSpace(line[from + q]) })

\* the pattern with #+ in place of #{1,6}: any number of '#' opens a header
header_match_any_hashes(line) ==
    LET k == LeadingHashes(line)
        w == SpacesAfter(line, k)
        n == Len(line)
        ok == k >= 1 /\ w >= 1 /\ (k + w < n \/ w >= 2)
    IN [ ok |-> ok,
         g1 |-> SubSeq(line, 1, k),
         g2 |-> IF k + w < n THEN SubSeq(line, k + w + 1, n)
                ELSE IF ok THEN SubSeq(line, n, n) ELSE <<>> ]

\* header_pattern.match(line): ok, and the two groups when ok.
\* (#{1,6}) takes up to six '#'; \s+ takes the whitespace that follows and
\* gives the last one back when nothing else is left for (.+), which needs
\* one character; '.' matches every character of a line (no "\n" in it).
header_match(line) ==
    LET k == Min(LeadingHashes(line), MaxHeaderLevel)
        w == SpacesAfter(line, k)
        n == Len(line)
        ok == k >= 1 /\ w >= 1 /\ (k + w < n \/ w >= 2)
    IN [ ok |-> ok,
         g1 |-> SubSeq(line, 1, k),
         g2 |-> IF k + w < n THEN SubSeq(line, k + w + 1, n)
                ELSE IF ok THEN SubSeq(line, n, n) ELSE <<>> ]

-----------------------------------------------------------------------------
(* chunk_by_headers: the scan *)

RECURSIVE PopStack_keep_equal(_, _)
\* the loop with > in place of >=: a frame of the same level stays
PopStack_keep_equal(stack, level) ==
    IF stack # <<>> /\ stack[Len(stack)].level > level
    THEN PopStack_keep_equal(SubSeq(stack, 1, Len(stack) - 1), level)
    ELSE stack

\* an if in place of the while: at most one frame is popped
PopStack_once(stack, level) ==
    IF stack # <<>> /\ stack[Len(stack)].level >= level
    THEN SubSeq(stack, 1, Len(stack) - 1)
    ELSE stack

RECURSIVE PopStack(_, _)
\* while header_stack and header_stack[-1]["level"] >= level: header_stack.pop()
PopStack(stack, level) ==
    IF stack # <<>> /\ stack[Len(stack)].level >= level
    THEN PopStack(SubSeq(stack, 1, Len(stack) - 1), level)
    ELSE stack

Titles(stack) == [ k \in 1..Len(stack) |-> stack[k].title ]

_create_chunk(content_lines, stack, level, start, end) ==
    LET content == Strip(Join(content_lines, <<NL>>))
        header_path == Titles(stack)
    IN [ content |-> content,
         header_path |-> IF header_path # <<>> THEN header_path ELSE <<DocumentRoot>>,
         level |-> level,
         start_line |-> start,
         end_line |-> end ]

\* The locals of the scan as a record.
Locals ==
    [ chunks |-> chunks, stacks |-> chunk_stacks, header_stack |-> header_stack,
      current_content |-> current_content, current_start |-> current_start,
      current_level |-> current_level ]

\* OnHeader closing the pending chunk at idx in place of idx - 1
OnHeader_overlap(st, m, line, idx) ==
    LET closing == st.current_content # <<>>
        chunk == _create_chunk(st.current_content, st.header_stack,
                               st.current_level, st.current_start, idx)
        level == Len(m.g1)
        title == Strip(m.g2)
    IN [ chunks |-> IF closing THEN Append(st.chunks, chunk) ELSE st.chunks,
         stacks |-> IF closing THEN Append(st.stacks, st.header_stack) ELSE st.stacks,
         header_stack |-> Append(PopStack(st.header_stack, level),
                                 [level |-> level, title |-> title]),
         current_content |-> <<line>>,
         current_start |-> idx,
         current_level |-> level ]

\* OnHeader that does not emit a pending chunk whose content an emitted
\* chunk already has
OnHeader_dedup(st, m, line, idx) ==
    LET chunk == _create_chunk(st.current_content, st.header_stack,
                               st.current_level, st.current_start, idx - 1)
        closing == /\ st.current_content # <<>>
                   /\ \A c \in 1..Len(st.chunks) : st.chunks[c].content # chunk.content
        level == Len(m.g1)
        title == Strip(m.g2)
    IN [ chunks |-> IF closing THEN Append(st.chunks, chunk) ELSE st.chunks,
         stacks |-> IF closing THEN Append(st.stacks, st.header_stack) ELSE st.stacks,
         header_stack |-> Append(PopStack(st.header_stack, level),
                                 [level |-> level, title |-> title]),
         current_content |-> <<line>>,
         current_start |-> idx,
         current_level |-> level ]

\* OnHeader with every chunk sharing the live header stack: the chunks
\* already emitted show the stack as it is after this header's update
OnHeader_shared_stack(st, m, line, idx) ==
    LET closing == st.current_content # <<>>
        chunk == _create_chunk(st.current_content, st.header_stack,
                               st.current_level, st.current_start, idx - 1)
        level == Len(m.g1)
        title == Strip(m.g2)
        stack == Append(PopStack(st.header_stack, level),
                        [level |-> level, title |-> title])
        emitted == IF closing THEN Append(st.chunks, chunk) ELSE st.chunks
    IN [ chunks |-> [ c \in 1..Len(emitted) |->
                        [emitted[c] EXCEPT !.header_path = Titles(stack)] ],
         stacks |-> IF closing THEN Append(st.stacks, st.header_stack) ELSE st.stacks,
         header_stack |-> stack,
         current_content |-> <<line>>,
         current_start |-> idx,
         current_level |-> level ]

\* The branch taken on a header line (lines 63-88): close the pending
\* chunk with the stack and level as they are, then update the stack.
OnHeader(st, m, line, idx) ==
    LET closing == st.current_content # <<>>
        chunk == _create_chunk(st.current_content, st.header_stack,
                               st.current_level, st.current_start, idx - 1)
        level == Len(m.g1)
        title == Strip(m.g2)
    IN [ chunks |-> IF closing THEN Append(st.chunks, chunk) ELSE st.chunks,
         stacks |-> IF closing THEN Append(st.stacks, st.header_stack) ELSE st.stacks,
         header_stack |-> Append(PopStack(st.header_stack, level),
                                 [level |-> level, title |-> title]),
         current_content |-> <<line>>,
         current_start |-> idx,
         current_level |-> level ]

\* OnContent that does not keep an empty line
OnContent_skip_empty(st, line) ==
    IF line = <<>> THEN st ELSE [ st EXCEPT !.current_content = Append(@, line) ]

\* The branch taken on any other line (line 90).
OnContent(st, line) ==
    [ st EXCEPT !.current_content = Append(@, line) ]

\* After the loop (lines 93-102).
OnEnd(st, nlines) ==
    IF st.current_content # <<>>
    THEN [ st EXCEPT
             !.chunks = Append(@, _create_chunk(st.current_content, st.header_stack,
                                                st.current_level, st.current_start,
                                                nlines - 1)),
             !.stacks = Append(@, st.header_stack) ]
    ELSE st

SetLocals(st) ==
    /\ chunks' = st.chunks
    /\ chunk_stacks' = st.stacks
    /\ header_stack' = st.header_stack
    /\ current_content' = st.current_content
    /\ current_start' = st.current_start
    /\ current_level' = st.current_level

-----------------------------------------------------------------------------
(* _subdivide_large_chunks: the inner loop over the paragraphs of one chunk *)

ParagraphSep == <<NL, NL>>

RECURSIVE SumLen(_)
\* sum(len(p) for p in sub_content)
SumLen(parts) == IF parts = <<>> THEN 0 ELSE Len(parts[1]) + SumLen(Tail(parts))

\* a sub-chunk built without the parent's hierarchy
SubChunk_root(sub_content, chunk, start, end) ==
    [ content |-> Join(sub_content, <<NL, NL>>),
      header_path |-> <<DocumentRoot>>,
      level |-> 0,
      start_line |-> start,
      end_line |-> end ]

SubChunk(sub_content, chunk, start, end) ==
    [ content |-> Join(sub_content, ParagraphSep),
      header_path |-> chunk.header_path,
      level |-> chunk.level,
      start_line |-> start,
      end_line |-> end ]

\* PackStep starting the new sub-chunk empty: the paragraph that closed
\* the accumulator is not carried over
PackStep_drop(acc, para, chunk, max) ==
    IF SumLen(acc.sub_content) + Len(para) > max /\ acc.sub_content # <<>>
    THEN [ out |-> Append(acc.out,
                          SubChunk(acc.sub_content, chunk, acc.sub_start,
                                   acc.sub_start + Len(acc.sub_content) - 1)),
           sub_content |-> <<>>,
           sub_start |-> acc.sub_start + 1 ]
    ELSE [ acc EXCEPT !.sub_content = Append(@, para) ]

\* PackStep testing the accumulated length alone, without len(para)
PackStep_no_para(acc, para, chunk, max) ==
    IF SumLen(acc.sub_content) > max /\ acc.sub_content # <<>>
    THEN [ out |-> Append(acc.out,
                          SubChunk(acc.sub_content, chunk, acc.sub_start,
                                   acc.sub_start + Len(acc.sub_content) - 1)),
           sub_content |-> <<para>>,
           sub_start |-> acc.sub_start + Len(<<para>>) ]
    ELSE [ acc EXCEPT !.sub_content = Append(@, para) ]

\* PackStep closing the accumulator as soon as the limit is reached
PackStep_close_at_limit(acc, para, chunk, max) ==
    IF SumLen(acc.sub_content) + Len(para) >= max /\ acc.sub_content # <<>>
    THEN [ out |-> Append(acc.out,
                          SubChunk(acc.sub_content, chunk, acc.sub_start,
                                   acc.sub_start + Len(acc.sub_content) - 1)),
           sub_content |-> <<para>>,
           sub_start |-> acc.sub_start + Len(<<para>>) ]
    ELSE [ acc EXCEPT !.sub_content = Append(@, para) ]

\* One iteration of "for para in paragraphs" (lines 146-164).
PackStep(acc, para, chunk, max) ==
    IF SumLen(acc.sub_content) + Len(para) > max /\ acc.sub_content # <<>>
    THEN [ out |-> Append(acc.out,
                          SubChunk(acc.sub_content, chunk, acc.sub_start,
                                   acc.sub_start + Len(acc.sub_content) - 1)),
           sub_content |-> <<para>>,
           sub_start |-> acc.sub_start + Len(<<para>>) ]
    ELSE [ acc EXCEPT !.sub_content = Append(@, para) ]

RECURSIVE PackAll(_, _, _, _)
PackAll(paragraphs, acc, chunk, max) ==
    IF paragraphs = <<>> THEN acc
    ELSE PackAll(Tail(paragraphs), PackStep(acc, paragraphs[1], chunk, max), chunk, max)

\* SubChunks ending the last sub-chunk where its paragraph count says
SubChunks_counted_end(chunk, max) ==
    LET paragraphs == Split(chunk.content, ParagraphSep)
        acc == PackAll(paragraphs,
                       [out |-> <<>>, sub_content |-> <<>>, sub_start |-> chunk.start_line],
                       chunk, max)
    IN IF acc.sub_content # <<>>
       THEN Append(acc.out, SubChunk(acc.sub_content, chunk, acc.sub_start,
                                     acc.sub_start + Len(acc.sub_content) - 1))
       ELSE acc.out

\* The sub-chunks an oversized chunk is replaced by (lines 141-175).
SubChunks(chunk, max) ==
    LET paragraphs == Split(chunk.content, ParagraphSep)
        acc == PackAll(paragraphs,
                       [out |-> <<>>, sub_content |-> <<>>, sub_start |-> chunk.start_line],
                       chunk, max)
    IN IF acc.sub_content # <<>>
       THEN Append(acc.out, SubChunk(acc.sub_content, chunk, acc.sub_start, chunk.end_line))
       ELSE acc.out

-----------------------------------------------------------------------------
(* MarkdownChunk.to_dict *)

PathSep == <<" ", ">", " ">>

\* to_dict joining the path with "/" 
to_dict_slash(chunk) ==
    [ content |-> chunk.content,
      header_path |-> Join(chunk.header_path, <<"/">>),
      level |-> chunk.level,
      start_line |-> chunk.start_line,
      end_line |-> chunk.end_line,
      metadata |-> [hierarchy |-> chunk.header_path, section_level |-> chunk.level] ]

to_dict(chunk) ==
    [ content |-> chunk.content,
      header_path |-> Join(chunk.header_path, PathSep),
      level |-> chunk.level,
      start_line |-> chunk.start_line,
      end_line |-> chunk.end_line,
      metadata |-> [hierarchy |-> chunk.header_path, section_level |-> chunk.level] ]

-----------------------------------------------------------------------------
(* State machine *)

Init ==
    /\ max_chunk_size \in SizeSet
    /\ md_content = <<>>
    /\ lines = <<>>
    /\ i = 0
    /\ chunks = <<>>
    /\ header_stack = <<>>
    /\ current_content = <<>>
    /\ current_start = 0
    /\ current_level = 0
    /\ matched = <<>>
    /\ chunk_stacks = <<>>
    /\ j = 0
    /\ result = <<>>
    /\ parent_of = <<>>
    /\ pc = "idle"
    /\ called = <<>>
    /\ handle = "none"
    /\ file = <<>>
    /\ error = "none"
    /\ obj = <<>>
    /\ projection = <<>>
    /\ cli = CliOff
    /\ search = SearchOff
    /\ web = WebOff

\* CallOn with the header stack kept from the call before, as if it were
\* a field of the chunker set in __init__
CallOn_keep_stack(text) ==
    /\ md_content' = text
    /\ lines' = Split(text, <<NL>>)
    /\ i' = 0
    /\ chunks' = <<>>
    /\ header_stack' = header_stack
    /\ current_content' = <<>>
    /\ current_start' = 0
    /\ current_level' = 0
    /\ matched' = <<>>
    /\ chunk_stacks' = <<>>
    /\ j' = 0
    /\ result' = <<>>
    /\ parent_of' = <<>>
    /\ called' = Append(called, text)
    /\ pc' = "scan"

\* chunk_by_headers(text) is entered: its locals are created (lines 52-58).
CallOn(text) ==
    /\ md_content' = text
    /\ lines' = Split(text, <<NL>>)
    /\ i' = 0
    /\ chunks' = <<>>
    /\ header_stack' = <<>>
    /\ current_content' = <<>>
    /\ current_start' = 0
    /\ current_level' = 0
    /\ matched' = <<>>
    /\ chunk_stacks' = <<>>
    /\ j' = 0
    /\ result' = <<>>
    /\ parent_of' = <<>>
    /\ called' = Append(called, text)
    /\ pc' = "scan"

\* chunk_by_headers(md_content) is called on a new chunker.
Call ==
    /\ pc = "idle"
    /\ \E text \in Inputs : CallOn(text)
    /\ UNCHANGED <<max_chunk_size, handle, file, error, obj, projection>>
    /\ UNCHANGED envVars

\* One iteration of the scan on a line the pattern matches.
HeaderLine ==
    /\ pc = "scan"
    /\ i < Len(lines)
    /\ LET line == lines[i + 1]
           m == header_match(line)
       IN /\ m.ok
          /\ SetLocals(OnHeader(Locals, m, line, i))
    /\ matched' = Append(matched, TRUE)
    /\ i' = i + 1
    /\ UNCHANGED <<max_chunk_size, md_content, lines, j, result, parent_of, pc>>
    /\ UNCHANGED clientVars
    /\ UNCHANGED envVars

\* One iteration of the scan on any other line.
ContentLine ==
    /\ pc = "scan"
    /\ i < Len(lines)
    /\ LET line == lines[i + 1]
       IN /\ ~header_match(line).ok
          /\ SetLocals(OnContent(Locals, line))
    /\ matched' = Append(matched, FALSE)
    /\ i' = i + 1
    /\ UNCHANGED <<max_chunk_size, md_content, lines, j, result, parent_of, pc>>
    /\ UNCHANGED clientVars
    /\ UNCHANGED envVars

\* The loop is over: the last chunk is added, and the chunks are returned
\* as they are unless a max_chunk_size is configured (lines 92-108).
LastChunk ==
    /\ pc = "scan"
    /\ i = Len(lines)
    /\ LET st == OnEnd(Locals, Len(lines))
       IN /\ SetLocals(st)
          /\ IF max_chunk_size # 0
             THEN /\ pc' = "subdivide"
                  /\ result' = <<>>
                  /\ parent_of' = <<>>
             ELSE /\ pc' = "done"
                  /\ result' = st.chunks
                  /\ parent_of' = [ k \in 1..Len(st.chunks) |-> k ]
    /\ j' = 0
    /\ UNCHANGED <<max_chunk_size, md_content, lines, i, matched>>
    /\ UNCHANGED clientVars
    /\ UNCHANGED envVars

\* PassThrough without result.append(chunk)
PassThrough_drop ==
    /\ pc = "subdivide"
    /\ j < Len(chunks)
    /\ Len(chunks[j + 1].content) <= max_chunk_size
    /\ j' = j + 1
    /\ UNCHANGED <<max_chunk_size, md_content, lines, i, chunks, header_stack,
                   current_content, current_start, current_level, matched,
                   chunk_stacks, result, parent_of, pc>>
    /\ UNCHANGED clientVars
    /\ UNCHANGED envVars

\* PassThrough packing the chunk into the chunk before it when both fit
\* the budget together
PassThrough_merge ==
    /\ pc = "subdivide"
    /\ j < Len(chunks)
    /\ Len(chunks[j + 1].content) <= max_chunk_size
    /\ IF /\ result # <<>>
          /\ Len(result[Len(result)].content) + Len(chunks[j + 1].content)
                <= max_chunk_size
       THEN /\ result' = [ result EXCEPT ![Len(result)].content =
                                            @ \o <<NL>> \o chunks[j + 1].content ]
            /\ parent_of' = parent_of
       ELSE /\ result' = Append(result, chunks[j + 1])
            /\ parent_of' = Append(parent_of, j + 1)
    /\ j' = j + 1
    /\ UNCHANGED <<max_chunk_size, md_content, lines, i, chunks, header_stack,
                   current_content, current_start, current_level, matched,
                   chunk_stacks, pc>>
    /\ UNCHANGED clientVars
    /\ UNCHANGED envVars

\* _subdivide_large_chunks, a chunk within the budget (lines 138-139).
PassThrough ==
    /\ pc = "subdivide"
    /\ j < Len(chunks)
    /\ Len(chunks[j + 1].content) <= max_chunk_size
    /\ result' = Append(result, chunks[j + 1])
    /\ parent_of' = Append(parent_of, j + 1)
    /\ j' = j + 1
    /\ UNCHANGED <<max_chunk_size, md_content, lines, i, chunks, header_stack,
                   current_content, current_start, current_level, matched,
                   chunk_stacks, pc>>
    /\ UNCHANGED clientVars
    /\ UNCHANGED envVars

\* _subdivide_large_chunks, an oversized chunk (lines 140-175).
Subdivide ==
    /\ pc = "subdivide"
    /\ j < Len(chunks)
    /\ Len(chunks[j + 1].content) > max_chunk_size
    /\ LET subs == SubChunks(chunks[j + 1], max_chunk_size)
       IN /\ result' = result \o subs
          /\ parent_of' = parent_of \o [ k \in 1..Len(subs) |-> j + 1 ]
    /\ j' = j + 1
    /\ UNCHANGED <<max_chunk_size, md_content, lines, i, chunks, header_stack,
                   current_content, current_start, current_level, matched,
                   chunk_stacks, pc>>
    /\ UNCHANGED clientVars
    /\ UNCHANGED envVars

\* _subdivide_large_chunks returns, and chunk_by_headers returns its list.
Return ==
    /\ pc = "subdivide"
    /\ j = Len(chunks)
    /\ pc' = "done"
    /\ UNCHANGED <<max_chunk_size, md_content, lines, i, chunks, header_stack,
                   current_content, current_start, current_level, matched,
                   chunk_stacks, j, result, parent_of>>
    /\ UNCHANGED clientVars
    /\ UNCHANGED envVars

Next ==
    \/ Call
    \/ HeaderLine
    \/ ContentLine
    \/ LastChunk
    \/ PassThrough
    \/ Subdivide
    \/ Return

Spec == Init /\ [][Next]_vars

-----------------------------------------------------------------------------
(* Properties *)

\* number of "\n"-separated lines of the document
TotalLines == Cardinality(Occurrences(md_content, <<NL>>)) + 1

Returned == pc = "done"

\* C1: chunked with no max_chunk_size, the returned chunks partition the
\* lines of the document: the first starts at line 0, the last ends at
\* line TotalLines - 1, each chunk starts right after the one before it
\* ends, and every line index lies in exactly one chunk.
C1_Partition ==
    (Returned /\ max_chunk_size = 0) =>
        /\ result # <<>>
        /\ result[1].start_line = 0
        /\ result[Len(result)].end_line = TotalLines - 1
        /\ \A k \in 1..(Len(result) - 1) :
               result[k].end_line + 1 = result[k + 1].start_line
        /\ \A n \in 0..(TotalLines - 1) :
               Cardinality({ k \in 1..Len(result) :
                               result[k].start_line <= n /\ n <= result[k].end_line }) = 1

C1_Witness ==
    /\ Returned
    /\ max_chunk_size = 0
    /\ Len(result) = 2
    /\ result[1].level = 0
    /\ result[2].end_line > result[2].start_line

StrictlyIncreasing(stack) ==
    \A k \in 1..(Len(stack) - 1) : stack[k].level < stack[k + 1].level

\* C2: at every point of the scan the levels of the header stack increase
\* strictly from bottom to top, and every emitted chunk's header_path is
\* the titles of a stack whose levels increase strictly.
C2_StackStrictlyIncreasing ==
    /\ StrictlyIncreasing(header_stack)
    /\ Len(chunk_stacks) = Len(chunks)
    /\ \A c \in 1..Len(chunks) :
          /\ StrictlyIncreasing(chunk_stacks[c])
          /\ chunks[c].header_path =
                IF chunk_stacks[c] = <<>> THEN <<DocumentRoot>>
                ELSE Titles(chunk_stacks[c])

\* a header of a level already on the stack has been handled, under a
\* two-frame path
C2_Witness ==
    /\ pc = "scan"
    /\ i = 3
    /\ Len(chunks) = 2
    /\ Len(chunk_stacks[2]) = 2
    /\ Len(header_stack) = 2
    /\ header_stack[2].level = chunk_stacks[2][2].level

LessThan(stack, level) == SelectSeq(stack, LAMBDA f : f.level < level)

\* C8: a step of the scan on a header line of level L and title T leaves
\* the stack holding the frames of the previous stack whose level is
\* below L, in their order, followed by (L, T).
C8_PopThenPush ==
    [][ (pc = "scan" /\ i < Len(lines) /\ i' = i + 1 /\ header_match(lines[i + 1]).ok) =>
            LET m == header_match(lines[i + 1])
                L == Len(m.g1)
                T == Strip(m.g2)
            IN header_stack' =
                  Append(LessThan(header_stack, L), [level |-> L, title |-> T]) ]_vars

\* sibling demotion: a level-1 header after "# A", "## B" is listed under
\* neither of them
C8_Witness ==
    /\ Returned
    /\ Len(chunks) = 3
    /\ chunks[1].header_path = << <<"A">> >>
    /\ chunks[2].header_path = << <<"A">>, <<"B">> >>
    /\ chunks[3].level = 1
    /\ Len(chunks[3].header_path) = 1

-----------------------------------------------------------------------------
(* The header line as the specification defines it *)

Slice(s, a, b) == IF a > b THEN <<>> ELSE SubSeq(s, a, b)

\* 1 to 6 leading '#', then at least one whitespace character, then text
\* whose trimmed value is not empty
SpecIsHeader(line) ==
    LET h == LeadingHashes(line) IN
    /\ h \in 1..6
    /\ \E w \in 1..(Len(line) - h) :
          /\ \A q \in 1..w : IsSpace(line[h + q])
          /\ Strip(Slice(line, h + w + 1, Len(line))) # <<>>

SpecLevel(line) == LeadingHashes(line)

SpecTitle(line) == Strip(Slice(line, LeadingHashes(line) + 1, Len(line)))

\* C3: a scanned line is taken as a header if and only if it is 1 to 6
\* '#' characters, then whitespace, then a title that is not empty once
\* trimmed.
C3_HeaderIffPattern ==
    \A k \in 1..Len(matched) : matched[k] <=> SpecIsHeader(lines[k])

\* C4: with max_chunk_size = N, a sub-chunk of an oversized chunk has a
\* content of at most N characters, separators included, unless it is a
\* single paragraph longer than N.
C4_BudgetAdherence ==
    \A k \in 1..Len(result) :
        (max_chunk_size # 0 /\ Len(chunks[parent_of[k]].content) > max_chunk_size) =>
            \/ Len(result[k].content) <= max_chunk_size
            \/ /\ Len(Split(result[k].content, ParagraphSep)) = 1
               /\ Len(result[k].content) > max_chunk_size

\* the chunks of result that come from chunk p, in output order
SubsOf(p) ==
    LET idx == SelectSeq([ k \in 1..Len(result) |-> k ], LAMBDA k : parent_of[k] = p)
    IN [ n \in 1..Len(idx) |-> result[idx[n]] ]

Contents(cs) == [ n \in 1..Len(cs) |-> cs[n].content ]

RECURSIVE Flatten(_)
Flatten(ss) == IF ss = <<>> THEN <<>> ELSE ss[1] \o Flatten(Tail(ss))

Subdivided(p) ==
    /\ max_chunk_size # 0
    /\ p \in 1..j
    /\ Len(chunks[p].content) > max_chunk_size

\* C5: the contents of the sub-chunks of a subdivided chunk, joined in
\* output order with "\n\n", are the content of the chunk, and their
\* paragraphs are the paragraphs of the chunk, in order.
C5_NoContentLoss ==
    \A p \in 1..Len(chunks) :
        Subdivided(p) =>
            /\ Join(Contents(SubsOf(p)), ParagraphSep) = chunks[p].content
            /\ Flatten([ n \in 1..Len(SubsOf(p)) |->
                           Split(SubsOf(p)[n].content, ParagraphSep) ])
                 = Split(chunks[p].content, ParagraphSep)

C5_Witness ==
    /\ Returned
    /\ \E p \in 1..Len(chunks) :
          /\ Subdivided(p)
          /\ Len(SubsOf(p)) = 2
          /\ Len(Split(chunks[p].content, ParagraphSep)) = 2

\* C6: every sub-chunk has the header_path and the level of the chunk it
\* was cut from.
C6_HierarchyInherited ==
    \A k \in 1..Len(result) :
        Subdivided(parent_of[k]) =>
            /\ result[k].header_path = chunks[parent_of[k]].header_path
            /\ result[k].level = chunks[parent_of[k]].level

C6_Witness ==
    /\ Returned
    /\ \E p \in 1..Len(chunks) :
          /\ Subdivided(p)
          /\ Len(SubsOf(p)) = 2
          /\ chunks[p].level = 2
          /\ chunks[p].header_path = << <<"B">> >>

EndsWith(s, suffix) ==
    /\ Len(s) >= Len(suffix)
    /\ SubSeq(s, Len(s) - Len(suffix) + 1, Len(s)) = suffix

RoundTrips(chunk) == Split(to_dict(chunk).header_path, PathSep) = chunk.header_path

\* C7 as stated: the 'header_path' string of to_dict(), split on " > ",
\* is the header_path of the chunk.
C7_RoundTrip ==
    \A c \in 1..Len(chunks) : RoundTrips(chunks[c])

\* no title holds " > ", and none but the last ends with " >"
Separable(path) ==
    /\ \A n \in 1..Len(path) : Occurrences(path[n], PathSep) = {}
    /\ \A n \in 1..(Len(path) - 1) : ~EndsWith(path[n], <<" ", ">">>)

\* C7 as amended: the split reconstructs the header_path exactly when no
\* title contains " > " and no title but the last ends with " >".
C7_RoundTripSeparable ==
    \A c \in 1..Len(chunks) : RoundTrips(chunks[c]) <=> Separable(chunks[c].header_path)

C7_Witness ==
    /\ Len(chunks) = 2
    /\ chunks[2].header_path = << <<"A">>, <<"B", " ", ">">> >>
    /\ RoundTrips(chunks[2])

\* the stack the specification's rule leaves after the first n lines
RECURSIVE SpecStack(_, _)
SpecStack(ls, n) ==
    IF n = 0 THEN <<>>
    ELSE LET prev == SpecStack(ls, n - 1) IN
         IF SpecIsHeader(ls[n])
         THEN Append(LessThan(prev, SpecLevel(ls[n])),
                     [level |-> SpecLevel(ls[n]), title |-> SpecTitle(ls[n])])
         ELSE prev

\* C9: a chunk has the level of the header line at its start_line and the
\* titles of the stack right after that header's update; a chunk whose
\* first line is no header has level 0 and header_path ["Document Root"].
C9_LevelAndPathOfOpeningHeader ==
    \A c \in 1..Len(chunks) :
        LET n == chunks[c].start_line + 1 IN
        IF SpecIsHeader(lines[n])
        THEN /\ chunks[c].level = SpecLevel(lines[n])
             /\ chunks[c].header_path = Titles(SpecStack(lines, n))
        ELSE /\ chunks[c].level = 0
             /\ chunks[c].header_path = <<DocumentRoot>>

\* C10: a document without header lines, chunked with no max_chunk_size,
\* gives one chunk: level 0, ["Document Root"], the trimmed document,
\* lines 0 to TotalLines - 1.
C10_NoHeaderOneChunk ==
    (Returned /\ max_chunk_size = 0 /\ \A k \in 1..Len(lines) : ~SpecIsHeader(lines[k])) =>
        result = << [ content |-> Strip(md_content),
                      header_path |-> <<DocumentRoot>>,
                      level |-> 0,
                      start_line |-> 0,
                      end_line |-> TotalLines - 1 ] >>

-----------------------------------------------------------------------------
(* C9 and C10 restricted to the lines header_pattern matches *)

RECURSIVE MatchStack(_, _)
MatchStack(ls, n) ==
    IF n = 0 THEN <<>>
    ELSE LET prev == MatchStack(ls, n - 1)
             m == header_match(ls[n])
         IN IF m.ok
            THEN Append(LessThan(prev, Len(m.g1)),
                        [level |-> Len(m.g1), title |-> Strip(m.g2)])
            ELSE prev

\* what C9 says, reading "header line" as a line header_pattern matches
OpeningHeaderOfMatchedLines ==
    \A c \in 1..Len(chunks) :
        LET n == chunks[c].start_line + 1
            m == header_match(lines[n])
        IN IF m.ok
           THEN /\ chunks[c].level = Len(m.g1)
                /\ chunks[c].header_path = Titles(MatchStack(lines, n))
           ELSE /\ chunks[c].level = 0
                /\ chunks[c].header_path = <<DocumentRoot>>

\* what C10 says, reading "header line" as a line header_pattern matches
NoMatchedLineOneChunk ==
    (Returned /\ max_chunk_size = 0 /\ \A k \in 1..Len(lines) : ~header_match(lines[k]).ok) =>
        result = << [ content |-> Strip(md_content),
                      header_path |-> <<DocumentRoot>>,
                      level |-> 0,
                      start_line |-> 0,
                      end_line |-> TotalLines - 1 ] >>

-----------------------------------------------------------------------------
(* Properties of the scan and of the subdivision, continued *)

\* 1 to 6 '#' followed by whitespace and nothing else
HashesThenSpaceOnly(line) ==
    LET h == LeadingHashes(line) IN
    /\ h \in 1..6
    /\ Len(line) > h
    /\ \A q \in (h + 1)..Len(line) : IsSpace(line[q])

\* C11: a line of 1 to 6 '#' followed only by whitespace is scanned as
\* content, and no frame of the stack and no header_path of a chunk holds
\* an empty title.
C11_EmptyTitleIsContent ==
    /\ \A k \in 1..Len(matched) : HashesThenSpaceOnly(lines[k]) => ~matched[k]
    /\ \A n \in 1..Len(header_stack) : header_stack[n].title # <<>>
    /\ \A c \in 1..Len(chunks) :
          \A n \in 1..Len(chunks[c].header_path) : chunks[c].header_path[n] # <<>>

\* C12: a step of the scan on a line of 7 or more leading '#', as on any
\* line the pattern does not match, appends the line to the pending lines
\* and leaves the stack, the level, the pending start and the emitted
\* chunks as they are.
C12_SevenHashesIsContent ==
    [][ ( /\ pc = "scan" /\ i < Len(lines) /\ i' = i + 1
          /\ \/ LeadingHashes(lines[i + 1]) >= 7
             \/ ~header_match(lines[i + 1]).ok ) =>
            /\ current_content' = Append(current_content, lines[i + 1])
            /\ UNCHANGED <<header_stack, current_level, current_start, chunks>> ]_vars

C12_Witness ==
    /\ pc = "scan"
    /\ i = 2
    /\ matched = <<TRUE, FALSE>>
    /\ LeadingHashes(lines[2]) >= 7
    /\ current_content = <<lines[1], lines[2]>>
    /\ Len(header_stack) = 1
    /\ current_level = 1

NonDecreasing(seq) == \A k \in 1..(Len(seq) - 1) : seq[k] <= seq[k + 1]

\* C13: with max_chunk_size = N a chunk of at most N characters is in the
\* output as it was built, at its place; with no max_chunk_size no
\* subdivision runs and the output is the list the scan built.
C13_WithinBudgetUnchanged ==
    /\ max_chunk_size = 0 => pc # "subdivide"
    /\ Returned =>
          /\ max_chunk_size = 0 => result = chunks
          /\ NonDecreasing(parent_of)
          /\ \A p \in 1..Len(chunks) :
                Len(chunks[p].content) <= max_chunk_size =>
                    SubsOf(p) = <<chunks[p]>>

\* a chunk of exactly N characters before an oversized one
C13_Witness ==
    /\ Returned
    /\ max_chunk_size = 2
    /\ Len(chunks) = 2
    /\ Len(chunks[1].content) = 2
    /\ Len(chunks[2].content) > 2
    /\ result[1] = chunks[1]

Paragraphs(chunk) == Split(chunk.content, ParagraphSep)

\* C14: in a subdivided chunk a paragraph longer than max_chunk_size is
\* the whole content of a sub-chunk of its own.
C14_OversizedParagraphAlone ==
    \A p \in 1..Len(chunks) :
        Subdivided(p) =>
            /\ \A n \in 1..Len(SubsOf(p)) :
                  LET paras == Paragraphs(SubsOf(p)[n]) IN
                  (\E q \in 1..Len(paras) : Len(paras[q]) > max_chunk_size) =>
                      Len(paras) = 1
            /\ \A q \in 1..Len(Paragraphs(chunks[p])) :
                  Len(Paragraphs(chunks[p])[q]) > max_chunk_size =>
                      \E n \in 1..Len(SubsOf(p)) :
                          SubsOf(p)[n].content = Paragraphs(chunks[p])[q]

\* an oversized paragraph after one that fits
C14_Witness ==
    /\ Returned
    /\ max_chunk_size = 5
    /\ \E p \in 1..Len(chunks) :
          /\ Subdivided(p)
          /\ Len(SubsOf(p)) = 2
          /\ Len(SubsOf(p)[1].content) <= 5
          /\ Len(SubsOf(p)[2].content) > 5

\* C15: the output is, chunk by chunk of the scan and in their order, one
\* or more chunks made of consecutive paragraphs of that chunk alone.
C15_NoMergeAcrossChunks ==
    Returned =>
        /\ NonDecreasing(parent_of)
        /\ Len(result) >= Len(chunks)
        /\ \A p \in 1..Len(chunks) :
              /\ SubsOf(p) # <<>>
              /\ Flatten([ n \in 1..Len(SubsOf(p)) |-> Paragraphs(SubsOf(p)[n]) ])
                    = Paragraphs(chunks[p])

\* two sections that would fit the budget together
C15_Witness ==
    /\ Returned
    /\ max_chunk_size = 5
    /\ Len(chunks) = 2
    /\ Len(chunks[1].content) + Len(chunks[2].content) < 5
    /\ Len(result) = 2

\* C16: the content of every chunk of the output, sub-chunks included,
\* has no leading and no trailing whitespace.
C16_ContentTrimmed ==
    \A k \in 1..Len(result) : Strip(result[k].content) = result[k].content

Scanned == pc \in {"subdivide", "done"}

\* C18: the chunks of the scan have strictly increasing start lines, and
\* there is one for each line the pattern matched and one for the lines
\* before the first of them, whatever their content, title or path.
C18_DocumentOrderNoDedup ==
    /\ \A k \in 1..(Len(chunks) - 1) : chunks[k].start_line < chunks[k + 1].start_line
    /\ Scanned =>
          Len(chunks) = Cardinality({ k \in 1..Len(matched) : matched[k] })
                          + (IF matched[1] THEN 0 ELSE 1)

\* three sections of the same content and path
C18_Witness ==
    /\ Scanned
    /\ Len(chunks) = 3
    /\ chunks[1].content = chunks[2].content
    /\ chunks[2].content = chunks[3].content
    /\ chunks[1].header_path = chunks[3].header_path

-----------------------------------------------------------------------------
(* A chunker used again: chunk_by_headers and load_and_chunk called on the *)
(* same instance, on a few short documents and files                       *)

MaxCalls == 2

SmallDocs ==
    { << <<"#"," ","A">> >>,
      << <<"#","#"," ","B">> >>,
      << <<"a","b">> >>,
      << <<"#"," ","A">>, <<"#","#"," ","B">> >>,
      << <<"#","#"," ","B">>, <<"#"," ","A">> >>,
      << <<"a","b">>, <<>>, <<"a","b">> >> }

SmallInputs == { Join(d, <<NL>>) : d \in SmallDocs }

\* What a path can hold: bytes that decode as UTF-8 (given decoded, line
\* ends as stored) or bytes that do not.
Files ==
    { [kind |-> "text", raw |-> <<"#"," ","A","\r",NL,"a","b">>],
      [kind |-> "text", raw |-> <<"a","b">>],
      [kind |-> "text", raw |-> <<"a","b",NL,NL,"a","b">>],
      [kind |-> "undecodable", raw |-> <<>>] }

\* open() raising before there is a file object
OpenErrors == {"FileNotFoundError", "PermissionError"}

RECURSIVE UniversalNewlines(_)
\* f.read() of a file opened in text mode with the default newline=None:
\* "\r\n" and "\r" are read as "\n"
UniversalNewlines(s) ==
    IF s = <<>> THEN <<>>
    ELSE IF s[1] = "\r"
         THEN <<NL>> \o UniversalNewlines(
                  IF Len(s) >= 2 /\ s[2] = NL THEN Tail(Tail(s)) ELSE Tail(s))
         ELSE <<s[1]>> \o UniversalNewlines(Tail(s))

Ready == pc \in {"idle", "done", "raised"}

\* the locals of a call that is over are gone
ClearLocals ==
    /\ md_content' = <<>>
    /\ lines' = <<>>
    /\ i' = 0
    /\ chunks' = <<>>
    /\ header_stack' = <<>>
    /\ current_content' = <<>>
    /\ current_start' = 0
    /\ current_level' = 0
    /\ matched' = <<>>
    /\ chunk_stacks' = <<>>
    /\ j' = 0
    /\ result' = <<>>
    /\ parent_of' = <<>>

\* chunk_by_headers(text) called on the instance, new or used.
DirectCall ==
    /\ Ready
    /\ Len(called) < MaxCalls
    /\ \E text \in SmallInputs : CallOn(text)
    /\ handle' = "none"
    /\ file' = <<>>
    /\ error' = "none"
    /\ UNCHANGED <<max_chunk_size, obj, projection>>
    /\ UNCHANGED envVars

\* load_and_chunk(filepath): open() succeeds, the with block is entered
\* (line 189).
LoadOpen ==
    /\ Ready
    /\ Len(called) < MaxCalls
    /\ \E f \in Files : file' = <<f>>
    /\ handle' = "open"
    /\ error' = "none"
    /\ pc' = "opened"
    /\ ClearLocals
    /\ UNCHANGED <<max_chunk_size, called, obj, projection>>
    /\ UNCHANGED envVars

\* load_and_chunk(filepath): open() raises; the exception leaves
\* load_and_chunk (line 189).
LoadOpenFails ==
    /\ Ready
    /\ Len(called) < MaxCalls
    /\ \E e \in OpenErrors : error' = e
    /\ handle' = "none"
    /\ file' = <<>>
    /\ pc' = "raised"
    /\ ClearLocals
    /\ UNCHANGED <<max_chunk_size, called, obj, projection>>
    /\ UNCHANGED envVars

\* content = f.read(), and the with block is left: the file is closed
\* (lines 189-190).
LoadRead ==
    /\ pc = "opened"
    /\ file[1].kind = "text"
    /\ md_content' = UniversalNewlines(file[1].raw)
    /\ handle' = "closed"
    /\ pc' = "loaded"
    /\ UNCHANGED <<max_chunk_size, lines, i, chunks, header_stack, current_content,
                   current_start, current_level, matched, chunk_stacks, j, result,
                   parent_of, called, file, error, obj, projection>>
    /\ UNCHANGED envVars

\* LoadReadFails without the with block: nothing closes the file
LoadReadFails_leak ==
    /\ pc = "opened"
    /\ file[1].kind = "undecodable"
    /\ error' = "UnicodeDecodeError"
    /\ pc' = "raised"
    /\ UNCHANGED <<max_chunk_size, md_content, lines, i, chunks, header_stack,
                   current_content, current_start, current_level, matched,
                   chunk_stacks, j, result, parent_of, called, handle, file, obj,
                   projection>>
    /\ UNCHANGED envVars

\* f.read() raises; the with block closes the file and the exception
\* leaves load_and_chunk (lines 189-190).
LoadReadFails ==
    /\ pc = "opened"
    /\ file[1].kind = "undecodable"
    /\ error' = "UnicodeDecodeError"
    /\ handle' = "closed"
    /\ pc' = "raised"
    /\ UNCHANGED <<max_chunk_size, md_content, lines, i, chunks, header_stack,
                   current_content, current_start, current_level, matched,
                   chunk_stacks, j, result, parent_of, called, file, obj, projection>>
    /\ UNCHANGED envVars

\* return self.chunk_by_headers(content) (line 192).
LoadCall ==
    /\ pc = "loaded"
    /\ CallOn(md_content)
    /\ UNCHANGED <<max_chunk_size, handle, file, error, obj, projection>>
    /\ UNCHANGED envVars

NextUse ==
    \/ DirectCall
    \/ LoadOpen
    \/ LoadOpenFails
    \/ LoadRead
    \/ LoadReadFails
    \/ LoadCall
    \/ HeaderLine
    \/ ContentLine
    \/ LastChunk
    \/ PassThrough
    \/ Subdivide
    \/ Return

SpecUse == Init /\ [][NextUse]_vars

-----------------------------------------------------------------------------
(* chunk_by_headers as a function of its argument and of max_chunk_size *)

EmptyLocals ==
    [ chunks |-> <<>>, stacks |-> <<>>, header_stack |-> <<>>,
      current_content |-> <<>>, current_start |-> 0, current_level |-> 0 ]

RECURSIVE ScanFrom(_, _, _)
ScanFrom(ls, idx, st) ==
    IF idx = Len(ls) THEN OnEnd(st, Len(ls))
    ELSE LET line == ls[idx + 1]
             m == header_match(line)
         IN ScanFrom(ls, idx + 1,
                     IF m.ok THEN OnHeader(st, m, line, idx) ELSE OnContent(st, line))

SubdivideAll(chs, max) ==
    Flatten([ p \in 1..Len(chs) |->
                IF Len(chs[p].content) <= max THEN <<chs[p]>> ELSE SubChunks(chs[p], max) ])

ChunkByHeaders(text, max) ==
    LET chs == ScanFrom(Split(text, <<NL>>), 0, EmptyLocals).chunks
    IN IF max # 0 THEN SubdivideAll(chs, max) ELSE chs

\* C17: whatever the instance chunked before, a call starts from empty
\* locals and returns what a new chunker with the same max_chunk_size
\* returns for the same text.
C17_StatelessAcrossCalls ==
    /\ (pc = "scan" /\ i = 0) =>
          /\ header_stack = <<>>
          /\ current_content = <<>>
          /\ current_level = 0
          /\ current_start = 0
          /\ chunks = <<>>
    /\ Returned => result = ChunkByHeaders(md_content, max_chunk_size)

\* "## B" chunked after "# A" on the same instance
C17_Witness ==
    /\ Returned
    /\ Len(called) = 2
    /\ called[1] = <<"#"," ","A">>
    /\ called[2] = <<"#","#"," ","B">>
    /\ result[1].header_path = << <<"B">> >>

\* C20: load_and_chunk returns what chunk_by_headers returns for the text
\* read from the file; when open() or read() fails the exception reaches
\* the caller and no list is returned; the file is open only between
\* open() and the end of the with block, on success and on failure.
C20_LoadAndChunk ==
    /\ handle = "open" => pc = "opened"
    /\ pc = "raised" =>
          /\ result = <<>>
          /\ IF file = <<>>
             THEN error \in OpenErrors /\ handle = "none"
             ELSE /\ file[1].kind = "undecodable"
                  /\ error = "UnicodeDecodeError"
                  /\ handle = "closed"
    /\ (Returned /\ file # <<>>) =>
          /\ file[1].kind = "text"
          /\ error = "none"
          /\ handle = "closed"
          /\ result = ChunkByHeaders(UniversalNewlines(file[1].raw), max_chunk_size)

\* a read that fails on an instance that loaded a file before
C20_Witness ==
    /\ pc = "raised"
    /\ Len(called) = 1
    /\ file # <<>>
    /\ handle = "closed"
    /\ error = "UnicodeDecodeError"

-----------------------------------------------------------------------------
(* A caller holding one returned chunk: its fields are plain attributes *)
(* (the dataclass is not frozen) and to_dict() may be called at any time *)

Fields == {"content", "header_path", "level", "start_line", "end_line"}

\* the value a caller assigns to a field
NewValue(f) ==
    CASE f = "content" -> <<"z">>
      [] f = "header_path" -> << <<"X">>, <<"Y">> >>
      [] f = "level" -> 6
      [] f = "start_line" -> 7
      [] f = "end_line" -> 9

\* chunk_by_headers(text) on a new instance.
FirstCall ==
    /\ pc = "idle"
    /\ \E text \in SmallInputs : CallOn(text)
    /\ UNCHANGED <<max_chunk_size, handle, file, error, obj, projection>>
    /\ UNCHANGED envVars

\* The caller keeps one chunk of the returned list.
Take ==
    /\ pc = "done"
    /\ \E k \in 1..Len(result) : obj' = <<result[k]>>
    /\ pc' = "held"
    /\ UNCHANGED <<max_chunk_size, md_content, lines, i, chunks, header_stack,
                   current_content, current_start, current_level, matched,
                   chunk_stacks, j, result, parent_of, called, handle, file, error,
                   projection>>
    /\ UNCHANGED envVars

\* chunk.<field> = value; the dict an earlier to_dict() returned is another
\* object and keeps its entries.
SetField ==
    /\ pc \in {"held", "projected"}
    /\ \E f \in Fields :
          /\ obj[1][f] # NewValue(f)
          /\ obj' = <<[obj[1] EXCEPT ![f] = NewValue(f)]>>
    /\ pc' = "held"
    /\ UNCHANGED <<max_chunk_size, md_content, lines, i, chunks, header_stack,
                   current_content, current_start, current_level, matched,
                   chunk_stacks, j, result, parent_of, called, handle, file, error,
                   projection>>
    /\ UNCHANGED envVars

\* to_dict returning the dict it built the first time
ToDict_cached ==
    /\ pc \in {"held", "projected"}
    /\ projection' = IF projection = <<>> THEN <<to_dict(obj[1])>> ELSE projection
    /\ pc' = "projected"
    /\ UNCHANGED <<max_chunk_size, md_content, lines, i, chunks, header_stack,
                   current_content, current_start, current_level, matched,
                   chunk_stacks, j, result, parent_of, called, handle, file, error,
                   obj>>
    /\ UNCHANGED envVars

\* chunk.to_dict() (lines 17-26).
ToDict ==
    /\ pc \in {"held", "projected"}
    /\ projection' = <<to_dict(obj[1])>>
    /\ pc' = "projected"
    /\ UNCHANGED <<max_chunk_size, md_content, lines, i, chunks, header_stack,
                   current_content, current_start, current_level, matched,
                   chunk_stacks, j, result, parent_of, called, handle, file, error,
                   obj>>
    /\ UNCHANGED envVars

NextDict ==
    \/ FirstCall
    \/ HeaderLine
    \/ ContentLine
    \/ LastChunk
    \/ PassThrough
    \/ Subdivide
    \/ Return
    \/ Take
    \/ SetField
    \/ ToDict

SpecDict == Init /\ [][NextDict]_vars

RECURSIVE OffsetOf(_, _)
\* where title k starts in the rendered path, counted from 0
OffsetOf(path, k) ==
    IF k = 1 THEN 0 ELSE OffsetOf(path, k - 1) + Len(path[k - 1]) + 3

\* str is the titles of path in order with " > " between neighbours
RendersPath(str, path) ==
    IF path = <<>> THEN str = <<>>
    ELSE /\ Len(str) = OffsetOf(path, Len(path)) + Len(path[Len(path)])
         /\ \A k \in 1..Len(path) :
               /\ Slice(str, OffsetOf(path, k) + 1, OffsetOf(path, k) + Len(path[k]))
                    = path[k]
               /\ k > 1 =>
                     Slice(str, OffsetOf(path, k) - 2, OffsetOf(path, k))
                       = <<" ", ">", " ">>

\* C19: the dict to_dict() has just returned is built from the fields the
\* chunk has at that moment, replaced ones included: 'header_path' is the
\* " > "-join of header_path, metadata.hierarchy is header_path,
\* metadata.section_level and 'level' are level, and content, start_line,
\* end_line are the fields.
C19_ToDictReflectsFields ==
    pc = "projected" =>
       LET d == projection[1]
           c == obj[1]
       IN /\ DOMAIN d = {"content", "header_path", "level", "start_line",
                         "end_line", "metadata"}
          /\ d.content = c.content
          /\ RendersPath(d.header_path, c.header_path)
          /\ d.level = c.level
          /\ d.start_line = c.start_line
          /\ d.end_line = c.end_line
          /\ DOMAIN d.metadata = {"hierarchy", "section_level"}
          /\ d.metadata.hierarchy = c.header_path
          /\ d.metadata.section_level = c.level

\* to_dict() called after header_path and level of a returned chunk were
\* replaced
C19_Witness ==
    /\ pc = "projected"
    /\ \A k \in 1..Len(result) : result[k] # obj[1]
    /\ obj[1].header_path = << <<"X">>, <<"Y">> >>
    /\ obj[1].level = 6
    /\ projection[1].header_path = <<"X", " ", ">", " ", "Y">>
    /\ projection[1].metadata.section_level = 6

-----------------------------------------------------------------------------
(* chunkerer.py run as a script (lines 217-243) *)

\* len(sys.argv) - 1
ArgCounts == {0, 1, 2, 3}

CliMaxChunkSize == 1024

\* what the path given on the command line can hold
CliFiles == Files \cup { [kind |-> "text", raw |-> t] : t \in Inputs }

PreviewLen == 150

\* the lines printed for one chunk (lines 235-243)
SummaryOf(chunk) ==
    [ header_path |-> to_dict(chunk).header_path,
      level |-> chunk.level,
      start_line |-> chunk.start_line,
      end_line |-> chunk.end_line,
      chars |-> Len(chunk.content),
      shown |-> IF Len(chunk.content) > PreviewLen
                THEN SubSeq(chunk.content, 1, PreviewLen) \o <<".", ".", ".">>
                ELSE chunk.content ]

\* Main with the test len(sys.argv) < 2: extra arguments are ignored
Main_at_least_one ==
    /\ cli.stage = "off"
    /\ pc = "idle"
    /\ \E n \in ArgCounts :
          IF n < 1
          THEN /\ cli' = [cli EXCEPT !.stage = "exited", !.argc = n,
                                     !.usage = TRUE, !.status = 1]
               /\ UNCHANGED max_chunk_size
          ELSE /\ cli' = [cli EXCEPT !.stage = "running", !.argc = n]
               /\ max_chunk_size' = CliMaxChunkSize
    /\ UNCHANGED <<md_content, lines, i, chunks, header_stack, current_content,
                   current_start, current_level, matched, chunk_stacks, j, result,
                   parent_of, pc, search, web>>
    /\ UNCHANGED clientVars

\* The script starts: on an argument count other than one it prints the
\* error line and the usage and calls sys.exit(1) (lines 221-224); else it
\* builds MarkdownChunker(max_chunk_size=1024) (lines 226-228).
Main ==
    /\ cli.stage = "off"
    /\ pc = "idle"
    /\ \E n \in ArgCounts :
          IF n # 1
          THEN /\ cli' = [cli EXCEPT !.stage = "exited", !.argc = n,
                                     !.usage = TRUE, !.status = 1]
               /\ UNCHANGED max_chunk_size
          ELSE /\ cli' = [cli EXCEPT !.stage = "running", !.argc = n]
               /\ max_chunk_size' = CliMaxChunkSize
    /\ UNCHANGED <<md_content, lines, i, chunks, header_stack, current_content,
                   current_start, current_level, matched, chunk_stacks, j, result,
                   parent_of, pc, search, web>>
    /\ UNCHANGED clientVars

\* chunker.load_and_chunk(input_file): open() succeeds (lines 230, 189).
CliOpen ==
    /\ cli.stage = "running"
    /\ pc = "idle"
    /\ \E f \in CliFiles : file' = <<f>>
    /\ handle' = "open"
    /\ error' = "none"
    /\ pc' = "opened"
    /\ ClearLocals
    /\ UNCHANGED <<max_chunk_size, called, obj, projection>>
    /\ UNCHANGED envVars

\* chunker.load_and_chunk(input_file): open() raises (lines 230, 189).
CliOpenFails ==
    /\ cli.stage = "running"
    /\ pc = "idle"
    /\ LoadOpenFails

\* print(f"Nombre de chunks: ...") (line 232).
CliPrintCount ==
    /\ cli.stage = "running"
    /\ pc = "done"
    /\ cli' = [cli EXCEPT !.stage = "printing"]
    /\ UNCHANGED <<max_chunk_size, md_content, lines, i, chunks, header_stack,
                   current_content, current_start, current_level, matched,
                   chunk_stacks, j, result, parent_of, pc, search, web>>
    /\ UNCHANGED clientVars

\* One turn of the loop over the chunks (lines 234-243).
CliPrintChunk ==
    /\ cli.stage = "printing"
    /\ Len(cli.summary) < Len(result)
    /\ cli' = [cli EXCEPT !.summary =
                  Append(cli.summary, SummaryOf(result[Len(cli.summary) + 1]))]
    /\ UNCHANGED <<max_chunk_size, md_content, lines, i, chunks, header_stack,
                   current_content, current_start, current_level, matched,
                   chunk_stacks, j, result, parent_of, pc, search, web>>
    /\ UNCHANGED clientVars

\* The loop is over and the script ends.
CliExit ==
    /\ cli.stage = "printing"
    /\ Len(cli.summary) = Len(result)
    /\ cli' = [cli EXCEPT !.stage = "exited", !.status = 0]
    /\ UNCHANGED <<max_chunk_size, md_content, lines, i, chunks, header_stack,
                   current_content, current_start, current_level, matched,
                   chunk_stacks, j, result, parent_of, pc, search, web>>
    /\ UNCHANGED clientVars

\* The exception of load_and_chunk is not caught: traceback, status 1.
CliCrash ==
    /\ cli.stage = "running"
    /\ pc = "raised"
    /\ cli' = [cli EXCEPT !.stage = "exited", !.status = 1]
    /\ UNCHANGED <<max_chunk_size, md_content, lines, i, chunks, header_stack,
                   current_content, current_start, current_level, matched,
                   chunk_stacks, j, result, parent_of, pc, search, web>>
    /\ UNCHANGED clientVars

\* The files here are shorter than 1024 characters: every chunk is passed
\* through and no chunk is subdivided.
NextCli ==
    \/ Main
    \/ CliOpen
    \/ CliOpenFails
    \/ LoadRead
    \/ LoadReadFails
    \/ LoadCall
    \/ HeaderLine
    \/ ContentLine
    \/ LastChunk
    \/ PassThrough
    \/ Return
    \/ CliPrintCount
    \/ CliPrintChunk
    \/ CliExit
    \/ CliCrash

SpecCli == Init /\ [][NextCli]_vars

\* C21: with an argument count other than one the script prints the usage,
\* exits with a non-zero status, and has opened no file and chunked
\* nothing; with exactly one argument it does not print the usage.
C21_UsageOnWrongArgCount ==
    /\ (cli.stage # "off" /\ cli.argc # 1) =>
          /\ cli.stage = "exited"
          /\ cli.usage
          /\ cli.status # 0
          /\ cli.status # -1
          /\ cli.summary = <<>>
          /\ handle = "none"
          /\ file = <<>>
          /\ called = <<>>
          /\ pc = "idle"
          /\ result = <<>>
    /\ (cli.stage # "off" /\ cli.argc = 1) => ~cli.usage

\* the script given two arguments has exited
C21_Witness ==
    /\ cli.stage = "exited"
    /\ cli.argc = 2
    /\ cli.usage
    /\ cli.status = 1

-----------------------------------------------------------------------------
(* search_similar_chunks (src/chunks_searching.py, lines 15-56) *)

QueryVectors == { <<1, 0>>, <<3, 4>> }

EmbeddingVectors == { <<1, 0>>, <<2, 0>>, <<0, 1>>, <<4, 3>> }

TopKs == {0, 1, 2, 3}

\* a question object: 'embedding' present (<<v>>) or absent (<<>>)
QuestionObjs ==
    { [question |-> "q", embedding |-> <<v>>] : v \in EmbeddingVectors }
      \cup { [question |-> "q", embedding |-> <<>>] }

QuestionLists ==
    { <<>> } \cup { <<a>> : a \in QuestionObjs }
             \cup { <<a, b>> : a, b \in QuestionObjs }

\* an item with the given chunk_id: 'questions' present (<<list>>) or
\* absent (<<>>)
ItemsOf(id) ==
    { [chunk_id |-> id, chunk_content |-> id, questions |-> <<ql>>] :
          ql \in QuestionLists }
      \cup { [chunk_id |-> id, chunk_content |-> id, questions |-> <<>>] }

\* data: a list of items, or one item that is not in a list
DataSet ==
    { [list |-> FALSE, value |-> <<a>>] : a \in ItemsOf("c1") }
      \cup { [list |-> TRUE, value |-> <<a>>] : a \in ItemsOf("c1") }
      \cup { [list |-> TRUE, value |-> <<a, b>>] :
                a \in ItemsOf("c1"), b \in { x \in ItemsOf("c2") : x.questions # <<>> } }

Dot(a, b) == a[1] * b[1] + a[2] * b[2]

Norm(a) == CHOOSE n \in 0..5 : n * n = Dot(a, a)

\* cosine similarity, in hundredths (the vectors here have whole norms and
\* cosines that are whole hundredths)
cosine_similarity_score(vec1, vec2) ==
    (Dot(vec1, vec2) * 100) \div (Norm(vec1) * Norm(vec2))

\* lines 25-28
ItemList(data) == IF data.list THEN data.value ELSE <<data.value[1]>>

RECURSIVE ScoreQuestions(_, _, _)
\* the records one item appends to similarities (lines 34-52)
ScoreQuestions(item, qs, q) ==
    IF qs = <<>> THEN <<>>
    ELSE (IF qs[1].embedding # <<>>
          THEN << [ chunk_id |-> item.chunk_id,
                    chunk_content |-> item.chunk_content,
                    question |-> qs[1].question,
                    similarity |-> cosine_similarity_score(q, qs[1].embedding[1]) ] >>
          ELSE <<>>)
         \o ScoreQuestions(item, Tail(qs), q)

ScoreItem(item, q) ==
    IF item.questions = <<>> THEN <<>> ELSE ScoreQuestions(item, item.questions[1], q)

\* InsertDesc putting a record before the records of equal similarity
InsertDesc_before_equal(sorted, x) ==
    LET before == { k \in 1..Len(sorted) : sorted[k].similarity > x.similarity }
        n == Cardinality(before)
    IN SubSeq(sorted, 1, n) \o <<x>> \o SubSeq(sorted, n + 1, Len(sorted))

\* x goes after every record whose similarity is at least its own: the
\* sort is stable, reverse=True included
InsertDesc(sorted, x) ==
    LET before == { k \in 1..Len(sorted) : sorted[k].similarity >= x.similarity }
        n == Cardinality(before)
    IN SubSeq(sorted, 1, n) \o <<x>> \o SubSeq(sorted, n + 1, Len(sorted))

RECURSIVE SortDesc(_)
\* similarities.sort(key=lambda x: x['similarity'], reverse=True)
SortDesc(seq) ==
    IF seq = <<>> THEN <<>>
    ELSE InsertDesc(SortDesc(SubSeq(seq, 1, Len(seq) - 1)), seq[Len(seq)])

\* seq[:k] for k >= 0
Prefix(seq, k) == SubSeq(seq, 1, Min(k, Len(seq)))

\* search_similar_chunks(data, question_embedding, top_k) is called.
SearchCall ==
    /\ search.stage = "off"
    /\ \E d \in DataSet, q \in QueryVectors, k \in TopKs :
          search' = [ stage |-> "loop", data |-> d, question_embedding |-> q,
                      top_k |-> k, n |-> 0, similarities |-> <<>>, found |-> <<>> ]
    /\ UNCHANGED <<max_chunk_size, md_content, lines, i, chunks, header_stack,
                   current_content, current_start, current_level, matched,
                   chunk_stacks, j, result, parent_of, pc, cli, web>>
    /\ UNCHANGED clientVars

\* One turn of the loop over the items (lines 33-52).
SearchItem ==
    /\ search.stage = "loop"
    /\ search.n < Len(ItemList(search.data))
    /\ search' = [search EXCEPT
                    !.n = search.n + 1,
                    !.similarities = search.similarities \o
                        ScoreItem(ItemList(search.data)[search.n + 1],
                                  search.question_embedding)]
    /\ UNCHANGED <<max_chunk_size, md_content, lines, i, chunks, header_stack,
                   current_content, current_start, current_level, matched,
                   chunk_stacks, j, result, parent_of, pc, cli, web>>
    /\ UNCHANGED clientVars

\* The sort and the slice (lines 55-56).
SearchReturn ==
    /\ search.stage = "loop"
    /\ search.n = Len(ItemList(search.data))
    /\ search' = [search EXCEPT
                    !.stage = "returned",
                    !.found = Prefix(SortDesc(search.similarities), search.top_k)]
    /\ UNCHANGED <<max_chunk_size, md_content, lines, i, chunks, header_stack,
                   current_content, current_start, current_level, matched,
                   chunk_stacks, j, result, parent_of, pc, cli, web>>
    /\ UNCHANGED clientVars

NextSearch ==
    \/ SearchCall
    \/ SearchItem
    \/ SearchReturn

SpecSearch == Init /\ [][NextSearch]_vars

\* <<a, b>>: question b of item a carries an embedding
Embedded(data) ==
    { p \in (1..2) \X (1..2) :
        /\ p[1] <= Len(data.value)
        /\ data.value[p[1]].questions # <<>>
        /\ p[2] <= Len(data.value[p[1]].questions[1])
        /\ data.value[p[1]].questions[1][p[2]].embedding # <<>> }

SeenBefore(p, r) == p[1] < r[1] \/ (p[1] = r[1] /\ p[2] < r[2])

SimilarityOf(data, q, p) ==
    cosine_similarity_score(q, data.value[p[1]].questions[1][p[2]].embedding[1])

RecordOf(data, q, p) ==
    [ chunk_id |-> data.value[p[1]].chunk_id,
      chunk_content |-> data.value[p[1]].chunk_content,
      question |-> data.value[p[1]].questions[1][p[2]].question,
      similarity |-> SimilarityOf(data, q, p) ]

\* C22: the returned list has at most top_k records; they are records of
\* distinct questions that carry an embedding, in non-increasing
\* similarity, equal similarities in input order, and no question left
\* out is more similar than a returned one.
C22_TopKBySimilarity ==
    search.stage = "returned" =>
       LET d == search.data
           q == search.question_embedding
           found == search.found
       IN /\ Len(found) <= search.top_k
          /\ \E f \in [1..Len(found) -> Embedded(d)] :
                /\ \A n \in 1..Len(found) : found[n] = RecordOf(d, q, f[n])
                /\ \A n, m \in 1..Len(found) :
                      n < m =>
                         /\ f[n] # f[m]
                         /\ found[n].similarity >= found[m].similarity
                         /\ found[n].similarity = found[m].similarity
                               => SeenBefore(f[n], f[m])
                /\ \A p \in Embedded(d) :
                      (\A n \in 1..Len(found) : f[n] # p) =>
                         \A n \in 1..Len(found) :
                            found[n].similarity >= SimilarityOf(d, q, p)

\* two questions of different chunks tie at the top, a third one is left out
C22_Witness ==
    /\ search.stage = "returned"
    /\ search.top_k = 2
    /\ Len(search.similarities) = 3
    /\ Len(search.found) = 2
    /\ search.found[1].similarity = search.found[2].similarity
    /\ search.found[1].chunk_id = "c1"
    /\ search.found[2].chunk_id = "c2"

-----------------------------------------------------------------------------
(* Properties of the scan, continued *)

\* C23: when the scan is over there is one chunk per header line, and one
\* more in front exactly when line 0 is not a header line, so at least
\* one chunk; a chunk of level >= 1 starts at a header line and holds no
\* other header line.
C23_OneChunkPerHeaderLine ==
    Scanned =>
       LET headers == { k \in 1..Len(lines) : SpecIsHeader(lines[k]) } IN
       /\ Len(chunks) = Cardinality(headers) + (IF SpecIsHeader(lines[1]) THEN 0 ELSE 1)
       /\ Len(chunks) >= 1
       /\ \A c \in 1..Len(chunks) :
             chunks[c].level >= 1 =>
                /\ SpecIsHeader(lines[chunks[c].start_line + 1])
                /\ \A k \in (chunks[c].start_line + 2)..(chunks[c].end_line + 1) :
                      ~SpecIsHeader(lines[k])

\* what C23 says, reading "header line" as a line header_pattern matches
OneChunkPerMatchedLine ==
    Scanned =>
       LET headers == { k \in 1..Len(lines) : header_match(lines[k]).ok } IN
       /\ Len(chunks) = Cardinality(headers) + (IF header_match(lines[1]).ok THEN 0 ELSE 1)
       /\ Len(chunks) >= 1
       /\ \A c \in 1..Len(chunks) :
             chunks[c].level >= 1 =>
                /\ header_match(lines[chunks[c].start_line + 1]).ok
                /\ \A k \in (chunks[c].start_line + 2)..(chunks[c].end_line + 1) :
                      ~header_match(lines[k]).ok

-----------------------------------------------------------------------------
(* Documents whose lines begin or end with whitespace *)

TrailLineSet ==
    { <<"#"," ","A"," ">>,
      <<"#","#"," ","B">>,
      <<"#"," "," ">>,
      <<"a","b"," ">>,
      <<" ","a","b">>,
      <<>> }

TrailInputs ==
    { Join(d, <<NL>>) : d \in UNION { [1..n -> TrailLineSet] : n \in 1..MaxLines } }

\* chunk_by_headers(text) on a new instance.
TrailCall ==
    /\ pc = "idle"
    /\ \E text \in TrailInputs : CallOn(text)
    /\ UNCHANGED <<max_chunk_size, handle, file, error, obj, projection>>
    /\ UNCHANGED envVars

NextTrail ==
    \/ TrailCall
    \/ HeaderLine
    \/ ContentLine
    \/ LastChunk
    \/ PassThrough
    \/ Subdivide
    \/ Return

SpecTrail == Init /\ [][NextTrail]_vars

RECURSIVE RStrip(_)
RStrip(s) ==
    IF s = <<>> \/ ~IsSpace(s[Len(s)]) THEN s ELSE RStrip(SubSeq(s, 1, Len(s) - 1))

StartsWith(s, prefix) == Len(prefix) <= Len(s) /\ Slice(s, 1, Len(prefix)) = prefix

\* the source lines first..last (zero-based, inclusive) joined with "\n"
SourceLines(first, last) == Join(Slice(lines, first + 1, last + 1), <<NL>>)

\* C24 as stated: the content of a chunk is its source lines start_line ..
\* end_line joined with "\n" and trimmed, and the content of a chunk of
\* level >= 1 begins with the line found at start_line.
C24_LineProvenance ==
    Scanned =>
       \A c \in 1..Len(chunks) :
          /\ chunks[c].content
               = Strip(SourceLines(chunks[c].start_line, chunks[c].end_line))
          /\ chunks[c].level >= 1 =>
                StartsWith(chunks[c].content, lines[chunks[c].start_line + 1])

\* C24, amended: the content of a chunk is its source lines start_line ..
\* end_line joined with "\n" and trimmed, and the content of a chunk of
\* level >= 1 begins with the line found at start_line trimmed of its
\* trailing whitespace.
C24_LineProvenanceTrimmed ==
    Scanned =>
       \A c \in 1..Len(chunks) :
          /\ chunks[c].content
               = Strip(SourceLines(chunks[c].start_line, chunks[c].end_line))
          /\ chunks[c].level >= 1 =>
                StartsWith(chunks[c].content, RStrip(lines[chunks[c].start_line + 1]))

\* "ab " and "# A " chunked: the header line loses its trailing space
C24_Witness ==
    /\ Scanned
    /\ Len(chunks) = 2
    /\ lines[2] = <<"#"," ","A"," ">>
    /\ chunks[2].level = 1
    /\ chunks[2].start_line = 1
    /\ chunks[2].content = <<"#"," ","A">>

\* C27: during the scan a chunk already in the output keeps its
\* header_path and its level (and stays in the output), whatever the
\* later header lines pop from and push on the header stack.
C27_HeaderPathSnapshot ==
    [][ pc = "scan" =>
          \A c \in 1..Len(chunks) :
             /\ c <= Len(chunks')
             /\ chunks'[c].header_path = chunks[c].header_path
             /\ chunks'[c].level = chunks[c].level ]_vars

\* "## B" then "# A" scanned: the chunk of B is out, the stack holds A only
C27_Witness ==
    /\ pc = "scan"
    /\ i = 2
    /\ Len(chunks) = 1
    /\ chunks[1].header_path = << <<"B">> >>
    /\ chunks[1].level = 2
    /\ Titles(header_stack) = << <<"A">> >>

Last(seq) == seq[Len(seq)]

\* C29: when the scan is over a chunk has level 0 exactly when it is the
\* first chunk and line 0 is not a header line; any other chunk has a
\* level in 1..6 and a header_path of 1 to level titles, the last one
\* being the trimmed title of the header line at its start_line.
C29_LevelZeroIffLeading ==
    Scanned =>
       \A c \in 1..Len(chunks) :
          /\ chunks[c].level = 0 <=> (c = 1 /\ ~SpecIsHeader(lines[1]))
          /\ chunks[c].level # 0 =>
                /\ chunks[c].level \in 1..6
                /\ Len(chunks[c].header_path) \in 1..chunks[c].level
                /\ SpecIsHeader(lines[chunks[c].start_line + 1])
                /\ Last(chunks[c].header_path)
                     = SpecTitle(lines[chunks[c].start_line + 1])

\* what C29 says, reading "header line" as a line header_pattern matches
LevelZeroIffLeadingUnmatched ==
    Scanned =>
       \A c \in 1..Len(chunks) :
          /\ chunks[c].level = 0 <=> (c = 1 /\ ~header_match(lines[1]).ok)
          /\ chunks[c].level # 0 =>
                /\ chunks[c].level \in 1..6
                /\ Len(chunks[c].header_path) \in 1..chunks[c].level
                /\ header_match(lines[chunks[c].start_line + 1]).ok
                /\ Last(chunks[c].header_path)
                     = Strip(header_match(lines[chunks[c].start_line + 1]).g2)

-----------------------------------------------------------------------------
(* Documents made of paragraphs: one-line paragraphs with an empty line *)
(* between neighbours                                                    *)

MaxParas == 4

ParaSet ==
    { <<"a">>,
      <<"b","b">>,
      <<"#"," ","A">>,
      <<"c","c","c","c","c","c">> }

ParaInputs ==
    { Join(d, <<NL, NL>>) : d \in UNION { [1..n -> ParaSet] : n \in 1..MaxParas } }

\* chunk_by_headers(text) on a new instance.
ParaCall ==
    /\ pc = "idle"
    /\ \E text \in ParaInputs : CallOn(text)
    /\ UNCHANGED <<max_chunk_size, handle, file, error, obj, projection>>
    /\ UNCHANGED envVars

NextPara ==
    \/ ParaCall
    \/ HeaderLine
    \/ ContentLine
    \/ LastChunk
    \/ PassThrough
    \/ Subdivide
    \/ Return

SpecPara == Init /\ [][NextPara]_vars

\* C25: of two consecutive sub-chunks of a subdivided chunk, the summed
\* paragraph lengths of the first plus the length of the first paragraph
\* of the second exceed max_chunk_size; and inside a sub-chunk every
\* paragraph after the first fitted when it was added.
C25_GreedyPacking ==
    \A p \in 1..Len(chunks) :
        Subdivided(p) =>
           LET subs == SubsOf(p) IN
           \A n \in 1..Len(subs) :
              LET paras == Paragraphs(subs[n]) IN
              /\ n < Len(subs) =>
                    SumLen(paras) + Len(Paragraphs(subs[n + 1])[1]) > max_chunk_size
              /\ \A m \in 2..Len(paras) :
                    SumLen(SubSeq(paras, 1, m - 1)) + Len(paras[m]) <= max_chunk_size

\* "bb", "bb", "a", "bb" with max_chunk_size 5: "a" still fits, "bb" does not
C25_Witness ==
    /\ Returned
    /\ max_chunk_size = 5
    /\ Len(chunks) = 1
    /\ Len(result) = 2
    /\ Len(Paragraphs(result[1])) = 3
    /\ SumLen(Paragraphs(result[1])) = 5
    /\ Len(Paragraphs(result[2])) = 1

\* C26: a closed sub-chunk of k paragraphs ends at its start_line + k - 1
\* and the next sub-chunk of the same chunk starts at its start_line + k.
C26_CounterAdvancesByParagraphs ==
    \A p \in 1..Len(chunks) :
        Subdivided(p) =>
           LET subs == SubsOf(p) IN
           \A n \in 1..(Len(subs) - 1) :
              LET k == Len(Paragraphs(subs[n])) IN
              /\ subs[n].end_line = subs[n].start_line + k - 1
              /\ subs[n + 1].start_line = subs[n].start_line + k

\* what the code does: the next sub-chunk starts one line further,
\* whatever k
CounterAdvancesByOne ==
    \A p \in 1..Len(chunks) :
        Subdivided(p) =>
           LET subs == SubsOf(p) IN
           \A n \in 1..(Len(subs) - 1) :
              LET k == Len(Paragraphs(subs[n])) IN
              /\ subs[n].end_line = subs[n].start_line + k - 1
              /\ subs[n + 1].start_line = subs[n].start_line + 1

\* C28: the first sub-chunk of a subdivided chunk starts where the chunk
\* starts, the last one ends where it ends, every sub-chunk lies inside
\* the chunk's range with start_line <= end_line, and start_line grows
\* strictly along the returned list.
C28_SubChunkRangesWellFormed ==
    /\ \A p \in 1..Len(chunks) :
          Subdivided(p) =>
             LET subs == SubsOf(p) IN
             /\ subs # <<>>
             /\ subs[1].start_line = chunks[p].start_line
             /\ subs[Len(subs)].end_line = chunks[p].end_line
             /\ \A n \in 1..Len(subs) :
                   /\ chunks[p].start_line <= subs[n].start_line
                   /\ subs[n].start_line <= subs[n].end_line
                   /\ subs[n].end_line <= chunks[p].end_line
    /\ Returned =>
          \A n \in 1..(Len(result) - 1) : result[n].start_line < result[n + 1].start_line

\* a chunk cut in three after another chunk
C28_Witness ==
    /\ Returned
    /\ Len(chunks) = 2
    /\ Subdivided(2)
    /\ Len(SubsOf(2)) = 3
    /\ result[Len(result)].end_line = TotalLines - 1

-----------------------------------------------------------------------------
(* api_convert (src/ui.py, lines 508-590) handling one upload.  web.pdf_path *)
(* and web.md_path say whether the file of that name exists in UPLOAD_DIR.  *)

PDF_MAGIC_BYTES == <<"%", "P", "D", "F", "-">>

ALLOWED_EXTENSIONS == { <<".", "p", "d", "f">> }

MAX_FILE_SIZE_BYTES == 50 * 1024 * 1024

\* file.filename; <<>> stands for a missing name
Filenames ==
    { <<>>,
      <<"a", ".", "p", "d", "f">>,
      <<"a", ".", "P", "D", "F">>,
      <<"a", ".", "t", "x", "t">>,
      <<"a">> }

\* an upload: its first bytes and its size
Bodies ==
    { [head |-> <<"%", "P", "D", "F", "-", "1">>, size |-> 6],
      [head |-> <<"%", "P", "D", "F">>, size |-> 4],
      [head |-> <<" ", "%", "P", "D", "F", "-">>, size |-> 6],
      [head |-> <<"h", "e", "l", "l", "o", "!">>, size |-> 6],
      [head |-> <<>>, size |-> 0],
      [head |-> <<"%", "P", "D", "F", "-", "1">>, size |-> MAX_FILE_SIZE_BYTES + 1],
      [head |-> <<"h", "e", "l", "l", "o", "!">>, size |-> MAX_FILE_SIZE_BYTES + 1] }

\* str.lower() on the letters of the names above
LowerChar(c) ==
    CASE c = "P" -> "p"
      [] c = "D" -> "d"
      [] c = "F" -> "f"
      [] OTHER -> c

Lower(str) == [ k \in 1..Len(str) |-> LowerChar(str[k]) ]

\* Path(name).suffix: from the last "." on, unless the name has none or
\* begins with its only one
Suffix(name) ==
    LET dots == { k \in 1..Len(name) : name[k] = "." } IN
    IF dots = {} THEN <<>>
    ELSE LET d == CHOOSE k \in dots : \A q \in dots : q <= k
         IN IF d = 1 THEN <<>> ELSE SubSeq(name, d, Len(name))

\* lines 520-521
ExtensionOf(filename) ==
    LET original_filename ==
            IF filename # <<>> THEN filename
            ELSE <<"d","o","c","u","m","e","n","t",".","p","d","f">>
    IN Lower(Suffix(original_filename))

\* validate_pdf_signature: f.read(5) compared with the signature
validate_pdf_signature(body) ==
    Slice(body.head, 1, Min(Len(PDF_MAGIC_BYTES), Len(body.head))) = PDF_MAGIC_BYTES

\* The status the except clauses of lines 575-590 answer with: 400 for a
\* ValueError, 500 for any other Exception, HTTPException included.
StatusAfterExcept(exc) == IF exc = "ValueError" THEN 400 ELSE 500

\* A request arrives; the extension is checked (lines 516-527).
ApiConvert ==
    /\ web.stage = "off"
    /\ \E name \in Filenames, body \in Bodies :
          web' = IF ExtensionOf(name) \in ALLOWED_EXTENSIONS
                 THEN [web EXCEPT !.stage = "saving", !.filename = name, !.body = body]
                 ELSE [web EXCEPT !.stage = "responded", !.filename = name,
                                  !.body = body, !.status_code = 400]
    /\ UNCHANGED <<max_chunk_size, md_content, lines, i, chunks, header_stack,
                   current_content, current_start, current_level, matched,
                   chunk_stacks, j, result, parent_of, pc, cli, search>>
    /\ UNCHANGED clientVars

\* save_upload_chunked returns or raises ValueError on an upload over the
\* size limit, after removing the partial file (lines 536, 68-93, 575-579).
SaveUpload ==
    /\ web.stage = "saving"
    /\ web' = IF web.body.size > MAX_FILE_SIZE_BYTES
              THEN [web EXCEPT !.stage = "responded", !.pdf_path = FALSE,
                               !.status_code = StatusAfterExcept("ValueError")]
              ELSE [web EXCEPT !.stage = "saved", !.pdf_path = TRUE]
    /\ UNCHANGED <<max_chunk_size, md_content, lines, i, chunks, header_stack,
                   current_content, current_start, current_level, matched,
                   chunk_stacks, j, result, parent_of, pc, cli, search>>
    /\ UNCHANGED clientVars

\* The signature is checked: a bad one removes the saved file and raises
\* HTTPException(400) inside the try block, which the except clauses
\* handle; a good one starts the conversion (lines 539-547, 575-590).
CheckSignature ==
    /\ web.stage = "saved"
    /\ web' = IF ~validate_pdf_signature(web.body)
              THEN [web EXCEPT !.stage = "responded", !.pdf_path = FALSE,
                               !.status_code = StatusAfterExcept("HTTPException")]
              ELSE [web EXCEPT !.stage = "converting", !.converted = TRUE]
    /\ UNCHANGED <<max_chunk_size, md_content, lines, i, chunks, header_stack,
                   current_content, current_start, current_level, matched,
                   chunk_stacks, j, result, parent_of, pc, cli, search>>
    /\ UNCHANGED clientVars

\* run_docling_with_timeout returns (success, message); the JSON answer is
\* sent (lines 547-573).
ConversionDone ==
    /\ web.stage = "converting"
    /\ \E success \in BOOLEAN :
          web' = [web EXCEPT !.stage = "responded", !.md_path = success,
                             !.status_code = 200]
    /\ UNCHANGED <<max_chunk_size, md_content, lines, i, chunks, header_stack,
                   current_content, current_start, current_level, matched,
                   chunk_stacks, j, result, parent_of, pc, cli, search>>
    /\ UNCHANGED clientVars

NextWeb ==
    \/ ApiConvert
    \/ SaveUpload
    \/ CheckSignature
    \/ ConversionDone

SpecWeb == Init /\ [][NextWeb]_vars

\* the answered request was a saved ".pdf" upload without the signature
BadSignatureAnswered ==
    /\ web.stage = "responded"
    /\ ExtensionOf(web.filename) = <<".", "p", "d", "f">>
    /\ web.body.size <= MAX_FILE_SIZE_BYTES
    /\ ~StartsWith(web.body.head, <<"%", "P", "D", "F", "-">>)

\* C30: a ".pdf" upload whose saved bytes do not start with "%PDF-" is
\* answered with status 400, its file is no longer in the upload
\* directory, and no conversion was started.
C30_BadSignatureRejected ==
    BadSignatureAnswered =>
       /\ web.status_code = 400
       /\ ~web.pdf_path
       /\ ~web.converted

\* what the code does: the file is removed and nothing is converted, and
\* the answer has status 500
BadSignatureAnswered500 ==
    BadSignatureAnswered =>
       /\ web.status_code = 500
       /\ ~web.pdf_path
       /\ ~web.md_path
       /\ ~web.converted

====
